---- MODULE Spec2Model ----
(***************************************************************************)
(* State-machine model of the client-side state layer of Hello Universe:   *)
(*   - the session store   (frontend/src/store/useUserStore.ts)            *)
(*   - the chain store     (frontend/src/store/useChainStore.ts)           *)
(*   - the chat hook       (frontend/src/hooks/useAI.ts)                   *)
(*   - the API client      (frontend/src/services/api-client.ts)           *)
(* JavaScript runs each handler to its next await without interruption, so *)
(* every action below is one such run: the synchronous start of a call, or *)
(* the continuation that runs when the awaited promise settles.            *)
(*                                                                         *)
(* JavaScript values: an object is a TLA+ record (a function on its keys), *)
(* so a missing key is a key outside DOMAIN; null is `null` where an       *)
(* object is expected and `nullStr` where a string is expected.            *)
(***************************************************************************)
EXTENDS Integers, Sequences, FiniteSets, TLC

\* ---------------------------------------------------------------- bounds
MaxAuthCalls == 2      \* login / signup / refreshSession calls issued in a run
MaxChainCalls == 3     \* connectWallet / switchChain calls issued in a run
MaxTx == 2             \* addTransaction calls in a run (length of transactions)
MaxAiCalls == 2        \* sendMessage calls issued in a run
MaxHistory == 52       \* transactions added in a long session
MaxApiCalls == 2       \* ApiClient.fetch calls issued in a run

\* ----------------------------------------------------------------- state
VARIABLES
  user,             \* UserState.user
  isAuthenticated,  \* UserState.isAuthenticated
  isLoading,        \* UserState.isLoading
  error,            \* UserState.error
  authCalls,        \* the login / signup / refreshSession calls of the run
  userStorage       \* localStorage['hello-universe-user']

sessionVars == <<user, isAuthenticated, isLoading, error, authCalls, userStorage>>

VARIABLES
  wallet,               \* ChainState.wallet
  currentChain,         \* ChainState.currentChain
  transactions,         \* ChainState.transactions
  pendingTransactions,  \* ChainState.pendingTransactions
  isWalletModalOpen,    \* ChainState.isWalletModalOpen
  isChainSwitching,     \* ChainState.isChainSwitching
  chainCalls,           \* the connectWallet / switchChain calls of the run
  chainStorage          \* localStorage['hello-universe-chain']

chainVars == <<wallet, currentChain, transactions, pendingTransactions,
               isWalletModalOpen, isChainSwitching, chainCalls, chainStorage>>

VARIABLES
  messages,            \* useAI: messages
  aiIsLoading,         \* useAI: isLoading
  isStreaming,         \* useAI: isStreaming
  aiError,             \* useAI: error
  currentResponse,     \* useAI: currentResponse
  abortControllerRef,  \* useAI: abortControllerRef.current (0 is null, else the call that made it)
  aiCalls,             \* the sendMessage calls of the run, each with its AbortController
  renderedMessages     \* the messages the callbacks of the latest render closed over

aiVars == <<messages, aiIsLoading, isStreaming, aiError, currentResponse,
            abortControllerRef, aiCalls, renderedMessages>>

VARIABLES
  apiCalls             \* the ApiClient.fetch calls of the run, each with its controller and timer

apiVars == <<apiCalls>>

vars == <<sessionVars, chainVars, aiVars, apiVars>>

\* ------------------------------------------------------- JavaScript values
null == [null |-> TRUE]
nullStr == "<null>"
EmptyObj == [k \in {} |-> TRUE]

\* { ...a, ...b }
Spread(a, b) == [k \in (DOMAIN a) \cup (DOMAIN b) |-> IF k \in DOMAIN b THEN b[k] ELSE a[k]]

Has(obj, key) == obj # null /\ key \in DOMAIN obj

\* ======================================================================
\* SESSION STORE
\* ======================================================================
defaultPreferences ==
  [theme |-> "system", notifications |-> TRUE, language |-> "en", newsletter |-> FALSE]

\* Preferences a backend may hold for an account, different from the defaults.
ServerPreferences ==
  [theme |-> "dark", notifications |-> FALSE, language |-> "fr", newsletter |-> TRUE]

\* User records the session API may return: with and without preferences.
ServerUsers ==
  { [id |-> "u1", username |-> "bob", updatedAt |-> "t0"],
    [id |-> "u1", username |-> "bob", updatedAt |-> "t0", preferences |-> ServerPreferences] }

\* Responses of the session API (spec section 6): the transport may fail; a
\* non-2xx answer carries a JSON body with an optional message, or, from a
\* proxy in between, a body that is no JSON at all; a 2xx answer carries a
\* JSON body with a user or a null user.
NetworkFailure == [net |-> FALSE]
Unparseable == [unparseable |-> TRUE]
ErrorBodies == { EmptyObj, [message |-> ""], [message |-> "Invalid credentials"], Unparseable }
OkBodies == { [user |-> null] } \cup { [user |-> u] : u \in ServerUsers }
AuthResponses ==
  { NetworkFailure }
    \cup { [net |-> TRUE, ok |-> FALSE, body |-> b] : b \in ErrorBodies }
    \cup { [net |-> TRUE, ok |-> TRUE, body |-> b] : b \in OkBodies }

AuthCallIds == 1..MaxAuthCalls
IdleCall == [kind |-> "none", pc |-> "idle"]

\* Arguments the UI passes to the synchronous setters.
SetUserArgs ==
  { null,
    [id |-> "u1", username |-> "bob", updatedAt |-> "t0", preferences |-> defaultPreferences] }
UserUpdates == { [username |-> "neo"] }
PreferenceUpdates == { [theme |-> "light"], [newsletter |-> TRUE] }
ErrorArgs == { nullStr, "oops" }

\* partialize of the persist middleware, written on every set().
UserPartialize(u, a, l, e) == [user |-> u, isAuthenticated |-> a]

SessionSet(u, a, l, e) ==
  /\ user' = u
  /\ isAuthenticated' = a
  /\ isLoading' = l
  /\ error' = e
  /\ userStorage' = UserPartialize(u, a, l, e)
  /\ UNCHANGED <<chainVars, aiVars, apiVars>>

\* Variant of MessageOr: data.message ?? fallback, which keeps an empty message.
MessageOrNullish(data, fallback) ==
  IF Has(data, "message") THEN data.message ELSE fallback

\* data.message || fallback
MessageOr(data, fallback) ==
  IF Has(data, "message") /\ data.message # "" THEN data.message ELSE fallback

\* const data = await response.json(); throw new Error(data.message || fallback):
\* the message of the error the catch block receives.
FailureMessage(body, fallback) ==
  IF body = Unparseable
    THEN "Unexpected token < in JSON at position 0"
    ELSE MessageOr(body, fallback)

\* Variant of PreferencesOrDefault: user.preferences as sent, nothing when absent.
PreferencesAsSent(u) ==
  IF Has(u, "preferences") THEN u.preferences ELSE EmptyObj

\* user.preferences || defaultPreferences
PreferencesOrDefault(u) ==
  IF Has(u, "preferences") THEN u.preferences ELSE defaultPreferences

\* const { user } = await response.json()
BodyUser(body) == IF Has(body, "user") THEN body.user ELSE null

SessionInit ==
  /\ user = null
  /\ isAuthenticated = FALSE
  /\ isLoading = FALSE
  /\ error = nullStr
  /\ authCalls = [k \in AuthCallIds |-> IdleCall]
  /\ userStorage = null

\* Variant of Truthy: isAuthenticated: true, whatever the user.
TruthyAlways(u) == TRUE

\* !!user
Truthy(u) == u # null

setUser(u) ==
  /\ SessionSet(u, Truthy(u), isLoading, nullStr)
  /\ UNCHANGED authCalls

updateUser(updates) ==
  /\ SessionSet(IF user # null THEN Spread(Spread(user, updates), [updatedAt |-> "now"]) ELSE null,
                isAuthenticated, isLoading, error)
  /\ UNCHANGED authCalls

updatePreferences(preferences) ==
  /\ SessionSet(IF user # null
                  THEN Spread(user,
                         [preferences |-> Spread(IF Has(user, "preferences")
                                                   THEN user.preferences ELSE EmptyObj,
                                                 preferences),
                          updatedAt |-> "now"])
                  ELSE null,
                isAuthenticated, isLoading, error)
  /\ UNCHANGED authCalls

setLoading(l) ==
  /\ SessionSet(user, isAuthenticated, l, error)
  /\ UNCHANGED authCalls

setError(e) ==
  /\ SessionSet(user, isAuthenticated, isLoading, e)
  /\ UNCHANGED authCalls

\* Variant of LogoutSet: the error is left as it is.
LogoutKeepingError == SessionSet(null, FALSE, isLoading, error)

LogoutSet == SessionSet(null, FALSE, isLoading, nullStr)

logout ==
  /\ LogoutSet
  /\ UNCHANGED authCalls

\* The next call of the run takes the lowest unused call id.
FreshAuthCall(k) ==
  /\ authCalls[k].pc = "idle"
  /\ \A j \in AuthCallIds : j < k => authCalls[j].pc # "idle"

\* A call that has returned keeps how it ended.
Settle(k, pc) == authCalls' = [authCalls EXCEPT ![k].pc = pc]

\* login / signup up to the await of fetch.
AuthStart(k, kind) ==
  /\ FreshAuthCall(k)
  /\ SessionSet(user, isAuthenticated, TRUE, nullStr)
  /\ authCalls' = [authCalls EXCEPT ![k] = [kind |-> kind, pc |-> "pending"]]

loginStart(k) == AuthStart(k, "login")

signupStart(k) == AuthStart(k, "signup")

Pending(k, kind) ==
  /\ authCalls[k].pc = "pending"
  /\ authCalls[k].kind = kind

\* The catch block of login / signup: record the message, settle, re-throw.
AuthCatch(k, message) ==
  /\ SessionSet(user, isAuthenticated, FALSE, message)
  /\ Settle(k, "rejected")

\* Variant of LoginUser: a response that finds a user in the store is dropped.
LoginUserFirstWins(u) ==
  IF user # null THEN user ELSE Spread(u, [preferences |-> PreferencesOrDefault(u)])

\* The user object login stores: { ...user, preferences: user.preferences || defaultPreferences }
LoginUser(u) == Spread(u, [preferences |-> PreferencesOrDefault(u)])

\* The user object signup stores: { ...user, preferences: defaultPreferences }
SignupUser(u) == Spread(IF u = null THEN EmptyObj ELSE u, [preferences |-> defaultPreferences])

\* login from the moment the awaited fetch has settled with r: the session
\* API has answered, or the transport has failed.
loginSettle(k, r) ==
  /\ Pending(k, "login")
  /\ IF ~r.net
       THEN AuthCatch(k, "Failed to fetch")
     ELSE IF ~r.ok
       THEN AuthCatch(k, FailureMessage(r.body, "Login failed"))
     ELSE IF BodyUser(r.body) = null
       THEN AuthCatch(k, "Cannot read properties of null (reading 'preferences')")
     ELSE /\ SessionSet(LoginUser(BodyUser(r.body)), TRUE, FALSE, error)
          /\ Settle(k, "resolved")

\* signup from the moment the awaited fetch has settled with r.
signupSettle(k, r) ==
  /\ Pending(k, "signup")
  /\ IF ~r.net
       THEN AuthCatch(k, "Failed to fetch")
     ELSE IF ~r.ok
       THEN AuthCatch(k, FailureMessage(r.body, "Signup failed"))
     ELSE /\ SessionSet(SignupUser(BodyUser(r.body)), TRUE, FALSE, error)
          /\ Settle(k, "resolved")

\* refreshSession up to the await of fetch: no set() before it.
refreshStart(k) ==
  /\ FreshAuthCall(k)
  /\ authCalls' = [authCalls EXCEPT ![k] = [kind |-> "refresh", pc |-> "pending"]]
  /\ UNCHANGED <<user, isAuthenticated, isLoading, error, userStorage>>
  /\ UNCHANGED <<chainVars, aiVars, apiVars>>

\* refreshSession from the moment the awaited fetch has settled with r; it
\* never throws.
refreshSettle(k, r) ==
  /\ Pending(k, "refresh")
  /\ IF r.net /\ r.ok /\ BodyUser(r.body) # null
       THEN SessionSet(LoginUser(BodyUser(r.body)), TRUE, isLoading, error)
       ELSE LogoutSet
  /\ Settle(k, "resolved")

\* A page reload: the store is created anew and the persist middleware merges
\* what localStorage holds into the initial state; calls in flight die with the page.
sessionReload ==
  /\ user' = IF userStorage = null THEN null ELSE userStorage.user
  /\ isAuthenticated' = IF userStorage = null THEN FALSE ELSE userStorage.isAuthenticated
  /\ isLoading' = FALSE
  /\ error' = nullStr
  /\ authCalls' = [k \in AuthCallIds |->
                     IF authCalls[k].pc = "pending"
                       THEN [authCalls[k] EXCEPT !.pc = "dropped"]
                       ELSE authCalls[k]]
  /\ UNCHANGED userStorage
  /\ UNCHANGED <<chainVars, aiVars, apiVars>>

SessionNext ==
  \/ \E u \in SetUserArgs : setUser(u)
  \/ \E updates \in UserUpdates : updateUser(updates)
  \/ \E p \in PreferenceUpdates : updatePreferences(p)
  \/ \E l \in BOOLEAN : setLoading(l)
  \/ \E e \in ErrorArgs : setError(e)
  \/ logout
  \/ \E k \in AuthCallIds : loginStart(k)
  \/ \E k \in AuthCallIds : signupStart(k)
  \/ \E k \in AuthCallIds : refreshStart(k)
  \/ \E k \in AuthCallIds, r \in AuthResponses : loginSettle(k, r)
  \/ \E k \in AuthCallIds, r \in AuthResponses : signupSettle(k, r)
  \/ \E k \in AuthCallIds, r \in AuthResponses : refreshSettle(k, r)
  \/ sessionReload


\* ======================================================================
\* CHAIN STORE
\* ======================================================================
\* Chain ids are only compared and used as keys, never computed with: they
\* are modelled as their decimal numerals, so that a null id is nullStr.
\* The raw field setters (setWalletStatus, setWalletAddress, setChainId,
\* setBalance, setEnsName, setEnsAvatar) are left out: no statement checked
\* here is about them.

SUPPORTED_CHAINS ==
  [id \in {"1", "137", "42161", "10", "8453"} |->
     [id |-> id,
      name |-> CASE id = "1" -> "Ethereum"
                 [] id = "137" -> "Polygon"
                 [] id = "42161" -> "Arbitrum One"
                 [] id = "10" -> "Optimism"
                 [] id = "8453" -> "Base"]]

initialWalletState ==
  [status |-> "disconnected", address |-> nullStr, chainId |-> nullStr,
   balance |-> 0, ensName |-> nullStr, ensAvatar |-> nullStr]

MockAddress == "0x1234567890123456789012345678901234567890"

TransactionStatus == {"pending", "confirmed", "failed", "cancelled"}

\* Transactions the UI adds and the partial updates it applies. A transaction
\* is { hash, status, description }: the other fields are carried like description.
Hashes == {"0x1", "0x2"}
TxArgs == [hash : Hashes, status : TransactionStatus, description : {"a"}]
TxUpdates == { EmptyObj, [description |-> "b"] } \cup { [status |-> s] : s \in TransactionStatus }
SwitchArgs == {"1", "137"}

ChainCallIds == 1..MaxChainCalls
IdleChainCall == [kind |-> "none", pc |-> "idle", arg |-> nullStr, from |-> nullStr]

PERSIST_LIMIT == 50

\* array.slice(0, n)
Slice0(s, n) == SubSeq(s, 1, IF Len(s) < n THEN Len(s) ELSE n)

\* Variant of ChainPartialize: the whole list is written.
ChainPartializeUncapped(txs) == [transactions |-> txs]

\* partialize of the persist middleware, written on every set().
ChainPartialize(txs) == [transactions |-> Slice0(txs, PERSIST_LIMIT)]

ChainInit ==
  /\ wallet = initialWalletState
  /\ currentChain = null
  /\ transactions = <<>>
  /\ pendingTransactions = <<>>
  /\ isWalletModalOpen = FALSE
  /\ isChainSwitching = FALSE
  /\ chainCalls = [k \in ChainCallIds |-> IdleChainCall]
  /\ chainStorage = null

\* set() with a partial state that leaves the transaction lists alone.
WalletSet(w, c, s) ==
  /\ wallet' = w
  /\ currentChain' = c
  /\ isChainSwitching' = s
  /\ chainStorage' = ChainPartialize(transactions)
  /\ UNCHANGED <<transactions, pendingTransactions, isWalletModalOpen>>
  /\ UNCHANGED <<sessionVars, aiVars, apiVars>>

\* set() with a partial state that holds the transaction lists only.
TxSet(txs, pend) ==
  /\ transactions' = txs
  /\ pendingTransactions' = pend
  /\ chainStorage' = ChainPartialize(txs)
  /\ UNCHANGED <<wallet, currentChain, isWalletModalOpen, isChainSwitching, chainCalls>>
  /\ UNCHANGED <<sessionVars, aiVars, apiVars>>

FreshChainCall(k) ==
  /\ chainCalls[k].pc = "idle"
  /\ \A j \in ChainCallIds : j < k => chainCalls[j].pc # "idle"

SettleChain(k, pc) == chainCalls' = [chainCalls EXCEPT ![k].pc = pc]

\* connectWallet up to the await: no guard on the current status.
ConnectGuard(status) == TRUE

connectStart(k) ==
  /\ FreshChainCall(k)
  /\ ConnectGuard(wallet.status)
  /\ WalletSet([wallet EXCEPT !.status = "connecting"], currentChain, isChainSwitching)
  /\ chainCalls' = [chainCalls EXCEPT ![k] =
                      [kind |-> "connect", pc |-> "pending", arg |-> "metamask", from |-> wallet.status]]

\* The wallet connectWallet commits once the handshake has resolved.
ConnectedWallet(w) ==
  [w EXCEPT !.status = "connected", !.address = MockAddress, !.chainId = "1", !.balance = 0]

\* connectWallet after the await, the handshake having resolved.
connectSuccess(k) ==
  /\ chainCalls[k].pc = "pending"
  /\ chainCalls[k].kind = "connect"
  /\ WalletSet(ConnectedWallet(wallet), SUPPORTED_CHAINS["1"], isChainSwitching)
  /\ SettleChain(k, "resolved")

\* connectWallet's catch block, the handshake having rejected: status error, re-throw.
connectFail(k) ==
  /\ chainCalls[k].pc = "pending"
  /\ chainCalls[k].kind = "connect"
  /\ WalletSet([wallet EXCEPT !.status = "error"], currentChain, isChainSwitching)
  /\ SettleChain(k, "rejected")

\* Variant of disconnectWallet: the wallet is reset, currentChain is kept.
disconnectKeepingChain ==
  /\ WalletSet(initialWalletState, currentChain, isChainSwitching)
  /\ UNCHANGED chainCalls

disconnectWallet ==
  /\ WalletSet(initialWalletState, null, isChainSwitching)
  /\ UNCHANGED chainCalls

switchStart(k, chainId) ==
  /\ FreshChainCall(k)
  /\ WalletSet(wallet, currentChain, TRUE)
  /\ chainCalls' = [chainCalls EXCEPT ![k] =
                      [kind |-> "switch", pc |-> "pending", arg |-> chainId, from |-> wallet.status]]

switchSuccess(k) ==
  /\ chainCalls[k].pc = "pending"
  /\ chainCalls[k].kind = "switch"
  /\ WalletSet([wallet EXCEPT !.chainId = chainCalls[k].arg],
               SUPPORTED_CHAINS[chainCalls[k].arg], FALSE)
  /\ SettleChain(k, "resolved")

\* Variant of switchFail: the catch block also forgets the chain.
switchFailForgettingChain(k) ==
  /\ chainCalls[k].pc = "pending"
  /\ chainCalls[k].kind = "switch"
  /\ WalletSet([wallet EXCEPT !.chainId = nullStr], null, FALSE)
  /\ SettleChain(k, "rejected")

switchFail(k) ==
  /\ chainCalls[k].pc = "pending"
  /\ chainCalls[k].kind = "switch"
  /\ WalletSet(wallet, currentChain, FALSE)
  /\ SettleChain(k, "rejected")

setWalletModalOpen(isOpen) ==
  /\ isWalletModalOpen' = isOpen
  /\ chainStorage' = ChainPartialize(transactions)
  /\ UNCHANGED <<wallet, currentChain, transactions, pendingTransactions,
                 isChainSwitching, chainCalls>>
  /\ UNCHANGED <<sessionVars, aiVars, apiVars>>

IsPending(tx) == tx.status = "pending"

\* The pending list addTransaction stores.
AddPending(tx, pend) == IF tx.status = "pending" THEN <<tx>> \o pend ELSE pend

\* The set() of addTransaction.
AddTransactionSet(tx) == TxSet(<<tx>> \o transactions, AddPending(tx, pendingTransactions))

addTransaction(tx) ==
  /\ Len(transactions) < MaxTx
  /\ AddTransactionSet(tx)

\* A long session: the n-th transaction the UI adds has the hash 0x<n> and
\* is pending when n is even, confirmed when n is odd.
Digits == <<"0", "1", "2", "3", "4", "5", "6", "7", "8", "9">>

RECURSIVE Decimal(_)
Decimal(n) == IF n < 10 THEN Digits[n + 1] ELSE Decimal(n \div 10) \o Digits[(n % 10) + 1]

NumberedTx(n) ==
  [hash |-> "0x" \o Decimal(n),
   status |-> IF n % 2 = 0 THEN "pending" ELSE "confirmed",
   description |-> "a"]

addNextTransaction ==
  /\ Len(transactions) < MaxHistory
  /\ AddTransactionSet(NumberedTx(Len(transactions) + 1))

\* Variant of UpdatePending: the pending list is left as it is.
UpdatePendingKept(hash, updates, pend) == pend

\* The pending list updateTransaction stores.
UpdatePending(hash, updates, pend) ==
  IF Has(updates, "status") /\ updates.status # "pending"
    THEN SelectSeq(pend, LAMBDA tx : tx.hash # hash)
    ELSE pend

updateTransaction(hash, updates) ==
  TxSet([i \in 1..Len(transactions) |->
           IF transactions[i].hash = hash
             THEN Spread(transactions[i], updates) ELSE transactions[i]],
        UpdatePending(hash, updates, pendingTransactions))

clearTransactions == TxSet(<<>>, <<>>)

\* A page reload: the store is created anew and the persist middleware merges
\* what localStorage holds (the transactions) into the initial state.
chainReload ==
  /\ wallet' = initialWalletState
  /\ currentChain' = null
  /\ transactions' = IF chainStorage = null THEN <<>> ELSE chainStorage.transactions
  /\ pendingTransactions' = <<>>
  /\ isWalletModalOpen' = FALSE
  /\ isChainSwitching' = FALSE
  /\ chainCalls' = [k \in ChainCallIds |->
                      IF chainCalls[k].pc = "pending"
                        THEN [chainCalls[k] EXCEPT !.pc = "dropped"] ELSE chainCalls[k]]
  /\ UNCHANGED chainStorage
  /\ UNCHANGED <<sessionVars, aiVars, apiVars>>

WalletNext ==
  \/ \E k \in ChainCallIds : connectStart(k)
  \/ \E k \in ChainCallIds : connectSuccess(k)
  \/ \E k \in ChainCallIds : connectFail(k)
  \/ disconnectWallet
  \/ \E k \in ChainCallIds, c \in SwitchArgs : switchStart(k, c)
  \/ \E k \in ChainCallIds : switchSuccess(k)
  \/ \E k \in ChainCallIds : switchFail(k)
  \/ \E b \in BOOLEAN : setWalletModalOpen(b)
  \/ chainReload

TxNext ==
  \/ \E tx \in TxArgs : addTransaction(tx)
  \/ \E h \in Hashes, u \in TxUpdates : updateTransaction(h, u)
  \/ clearTransactions
  \/ chainReload


\* ======================================================================
\* CHAT HOOK (useAI)
\* ======================================================================
\* Strings are TLA+ strings; the bytes of a response are ASCII, so that
\* TextDecoder.decode(value, {stream: true}) yields the bytes read as text.

CharAt(s, i) == SubSeq(s, i, i)

Whitespace == {" ", "\n", "\t", "\r"}

RECURSIVE TrimStart(_)
TrimStart(s) ==
  IF s # "" /\ CharAt(s, 1) \in Whitespace THEN TrimStart(SubSeq(s, 2, Len(s))) ELSE s

RECURSIVE TrimEnd(_)
TrimEnd(s) ==
  IF s # "" /\ CharAt(s, Len(s)) \in Whitespace THEN TrimEnd(SubSeq(s, 1, Len(s) - 1)) ELSE s

\* Variant of Trim: the text as it is.
TrimNothing(s) == s

\* s.trim()
Trim(s) == TrimEnd(TrimStart(s))

\* s.startsWith(p), s.endsWith(p)
StartsWith(s, p) == Len(s) >= Len(p) /\ SubSeq(s, 1, Len(p)) = p
EndsWith(s, p) == Len(s) >= Len(p) /\ SubSeq(s, Len(s) - Len(p) + 1, Len(s)) = p

\* s.indexOf(c) for a single character c, counted from 1; 0 when absent.
IndexOf(s, c) ==
  LET at == { i \in 1..Len(s) : CharAt(s, i) = c }
  IN  IF at = {} THEN 0 ELSE CHOOSE i \in at : \A j \in at : i <= j

\* s.split(sep) for a single character sep.
RECURSIVE Split(_, _)
Split(s, sep) ==
  LET i == IndexOf(s, sep)
  IN  IF i = 0 THEN <<s>>
      ELSE <<SubSeq(s, 1, i - 1)>> \o Split(SubSeq(s, i + 1, Len(s)), sep)

\* JSON.parse on what a chat endpoint sends after the marker: the shapes of
\* AIStreamChunk ({content}, {error}, {content, error}, with string values free
\* of quotes and escapes) parse to an object; any other text throws.
ContentOpen == "{\"content\":\""
ErrorOpen == "{\"error\":\""
ErrorJoin == "\",\"error\":\""
ObjectClose == "\"}"
NotJSON == [ok |-> FALSE]
Parsed(obj) == [ok |-> TRUE, value |-> obj]

JSONParse(data) ==
  IF StartsWith(data, ContentOpen) /\ EndsWith(data, ObjectClose)
       /\ Len(data) >= Len(ContentOpen) + Len(ObjectClose)
    THEN LET inner == SubSeq(data, Len(ContentOpen) + 1, Len(data) - Len(ObjectClose))
             q == IndexOf(inner, "\"")
             rest == SubSeq(inner, q, Len(inner))
             err == SubSeq(rest, Len(ErrorJoin) + 1, Len(rest))
         IN  IF q = 0 THEN Parsed([content |-> inner])
             ELSE IF StartsWith(rest, ErrorJoin) /\ IndexOf(err, "\"") = 0
               THEN Parsed([content |-> SubSeq(inner, 1, q - 1), error |-> err])
             ELSE NotJSON
  ELSE IF StartsWith(data, ErrorOpen) /\ EndsWith(data, ObjectClose)
            /\ Len(data) >= Len(ErrorOpen) + Len(ObjectClose)
    THEN LET inner == SubSeq(data, Len(ErrorOpen) + 1, Len(data) - Len(ObjectClose))
         IN  IF IndexOf(inner, "\"") = 0 THEN Parsed([error |-> inner]) ELSE NotJSON
  ELSE NotJSON

EventMarker == "data: "
Sentinel == "[DONE]"

\* Variant of Accumulate: fullResponse = text, which drops what came before.
AccumulateReplace(full, text) == text

\* fullResponse += text
Accumulate(full, text) == full \o text

\* fullResponse += text; setCurrentResponse(fullResponse). An accumulator is
\* the local fullResponse with the values handed to setCurrentResponse so far.
Surface(acc, text) ==
  LET full == Accumulate(acc.full, text)
  IN  [full |-> full, shown |-> Append(acc.shown, full)]

\* The body of the for loop over the lines of a chunk.
ProcessLine(acc, line) ==
  IF ~StartsWith(line, EventMarker) THEN acc
  ELSE LET data == SubSeq(line, Len(EventMarker) + 1, Len(line))
           p == JSONParse(data)
       IN  IF data = Sentinel THEN acc
           ELSE IF ~p.ok THEN Surface(acc, data)
           ELSE LET a1 == IF Has(p.value, "content") /\ p.value.content # ""
                            THEN Surface(acc, p.value.content) ELSE acc
                IN  \* throw new Error(parsed.error) is caught by the catch of the same try
                    IF Has(p.value, "error") /\ p.value.error # ""
                      THEN Surface(a1, data) ELSE a1

RECURSIVE ProcessLines(_, _)
ProcessLines(acc, lines) ==
  IF lines = <<>> THEN acc
  ELSE ProcessLines(ProcessLine(acc, Head(lines)), Tail(lines))

\* chunk.split('\n').filter((line) => line.trim() !== ''), then the for loop.
ProcessChunk(acc, chunk) ==
  ProcessLines(acc, SelectSeq(Split(chunk, "\n"), LAMBDA line : Trim(line) # ""))

\* Response bodies of the chat endpoint, and where a read may end before the
\* end of the body: hello may arrive line by line or cut inside its second
\* line; the other bodies arrive in one read.
Streams ==
  [ hello |-> [text |-> "data: {\"content\":\"He\"}\ndata: {\"content\":\"llo\"}\ndata: [DONE]\n",
               cuts |-> {23, 30}],
    error |-> [text |-> "data: {\"content\":\"He\"}\ndata: {\"error\":\"boom\"}\ndata: [DONE]\n",
               cuts |-> {}],
    tail  |-> [text |-> ": ping\ndata: {\"content\":\"Hi\"}\ndata: [DONE]\ndata: {\"content\":\"X\"}\n",
               cuts |-> {}],
    raw   |-> [text |-> "data: hi\n\n",
               cuts |-> {}] ]

StreamNames == DOMAIN Streams

ReadEnds(name) == Streams[name].cuts \cup { Len(Streams[name].text) }

\* Answers to the fetch of sendMessage.
ChatResponses ==
  { [net |-> FALSE] }
    \cup { [net |-> TRUE, ok |-> FALSE, statusText |-> "Internal Server Error"] }
    \cup { [net |-> TRUE, ok |-> TRUE, body |-> nullStr] }
    \cup { [net |-> TRUE, ok |-> TRUE, body |-> s] : s \in StreamNames }

\* What the UI passes to the k-th sendMessage call of a run: a text of its
\* own (the second one padded with blanks), or blanks only.
Contents(k) == { IF k = 1 THEN "a" ELSE IF k = 2 THEN " b " ELSE "c", "  " }

AiCallIds == 1..MaxAiCalls

IdleAiCall ==
  [pc |-> "idle", body |-> <<>>, live |-> {}, aborted |-> FALSE,
   stream |-> nullStr, pos |-> 0, split |-> FALSE, full |-> "", shown |-> <<>>,
   outcome |-> "none"]

InFlight(k) == aiCalls[k].pc \in {"fetch", "read"}

AiInit ==
  /\ messages = <<>>
  /\ aiIsLoading = FALSE
  /\ isStreaming = FALSE
  /\ aiError = nullStr
  /\ currentResponse = ""
  /\ abortControllerRef = 0
  /\ aiCalls = [k \in AiCallIds |-> IdleAiCall]
  /\ renderedMessages = <<>>

FreshAiCall(k) ==
  /\ aiCalls[k].pc = "idle"
  /\ \A j \in AiCallIds : j < k => aiCalls[j].pc # "idle"

\* generateId() is a fresh id: the call that made the message, with its role.
UserMessage(k, content) == [id |-> k, role |-> "user", content |-> Trim(content)]
AssistantMessage(k, content) == [id |-> k, role |-> "assistant", content |-> content]

\* messages.map((m) => ({ role: m.role, content: m.content }))
RequestMessages(msgs) == [i \in 1..Len(msgs) |-> [role |-> msgs[i].role, content |-> msgs[i].content]]

\* What sendMessage does to the previous controller before installing its own.
Supersede(calls) == calls

\* sendMessage from its first line to the await of fetch, the log being `log`
\* when its setMessages updater runs.
SendSync(k, content, log) ==
  /\ aiError' = nullStr
  /\ aiIsLoading' = TRUE
  /\ messages' = Append(log, UserMessage(k, content))
  /\ abortControllerRef' = k
  /\ aiCalls' = [Supersede(aiCalls) EXCEPT ![k] =
                   [IdleAiCall EXCEPT
                      !.pc = "fetch",
                      !.body = RequestMessages(Append(renderedMessages, UserMessage(k, content))),
                      !.live = { j \in AiCallIds : InFlight(j) }]]
  /\ UNCHANGED <<isStreaming, currentResponse, renderedMessages>>
  /\ UNCHANGED <<sessionVars, chainVars, apiVars>>

sendMessage(k, content) ==
  /\ FreshAiCall(k)
  /\ IF Trim(content) = ""
       THEN UNCHANGED vars
       ELSE SendSync(k, content, messages)

\* The finally block of sendMessage, after which the call returns: its locals
\* and its controller are gone, and how it ended is kept.
Finally(k, outcome, calls) ==
  /\ aiIsLoading' = FALSE
  /\ isStreaming' = FALSE
  /\ abortControllerRef' = 0
  /\ aiCalls' = [calls EXCEPT ![k] =
                   [IdleAiCall EXCEPT !.pc = "done", !.outcome = outcome, !.live = calls[k].live]]

\* sendMessage from the moment fetch settles with r.
fetchSettle(k, r) ==
  /\ aiCalls[k].pc = "fetch"
  /\ ~aiCalls[k].aborted
  /\ IF ~r.net
       THEN /\ aiError' = "Failed to fetch"
            /\ Finally(k, "error", aiCalls)
            /\ UNCHANGED <<messages, currentResponse>>
     ELSE IF ~r.ok
       THEN /\ aiError' = "API error: " \o r.statusText
            /\ Finally(k, "error", aiCalls)
            /\ UNCHANGED <<messages, currentResponse>>
     ELSE IF r.body = nullStr
       THEN /\ Finally(k, "nobody", aiCalls)
            /\ UNCHANGED <<messages, currentResponse, aiError>>
     ELSE /\ isStreaming' = TRUE
          /\ currentResponse' = ""
          /\ aiCalls' = [aiCalls EXCEPT ![k].pc = "read", ![k].stream = r.body]
          /\ UNCHANGED <<messages, aiIsLoading, aiError, abortControllerRef>>
  /\ UNCHANGED renderedMessages
  /\ UNCHANGED <<sessionVars, chainVars, apiVars>>

\* One pass of the while loop: reader.read() resolves with the bytes up to `end`.
readChunk(k) ==
  /\ aiCalls[k].pc = "read"
  /\ ~aiCalls[k].aborted
  /\ \E end \in { e \in ReadEnds(aiCalls[k].stream) : e > aiCalls[k].pos } :
     LET text == Streams[aiCalls[k].stream].text
         chunk == SubSeq(text, aiCalls[k].pos + 1, end)
         acc == ProcessChunk([full |-> aiCalls[k].full, shown |-> <<>>], chunk)
     IN  /\ aiCalls' = [aiCalls EXCEPT
                          ![k].pos = end,
                          ![k].split = aiCalls[k].split \/ ~EndsWith(chunk, "\n"),
                          ![k].full = acc.full,
                          ![k].shown = aiCalls[k].shown \o acc.shown]
         /\ currentResponse' = IF acc.shown = <<>> THEN currentResponse ELSE acc.full
  /\ UNCHANGED <<messages, aiIsLoading, isStreaming, aiError, abortControllerRef, renderedMessages>>
  /\ UNCHANGED <<sessionVars, chainVars, apiVars>>

\* reader.read() resolves with done: append the assistant message, clear the
\* accumulator, run the finally block.
readDone(k) ==
  /\ aiCalls[k].pc = "read"
  /\ ~aiCalls[k].aborted
  /\ aiCalls[k].pos = Len(Streams[aiCalls[k].stream].text)
  /\ messages' = Append(messages, AssistantMessage(k, aiCalls[k].full))
  /\ currentResponse' = ""
  /\ Finally(k, "appended", aiCalls)
  /\ UNCHANGED <<aiError, renderedMessages>>
  /\ UNCHANGED <<sessionVars, chainVars, apiVars>>

\* reader.read() rejects (the connection drops): the outer catch, then finally.
readFail(k) ==
  /\ aiCalls[k].pc = "read"
  /\ ~aiCalls[k].aborted
  /\ aiError' = "network error"
  /\ Finally(k, "error", aiCalls)
  /\ UNCHANGED <<messages, currentResponse, renderedMessages>>
  /\ UNCHANGED <<sessionVars, chainVars, apiVars>>

\* The pending fetch or read of an aborted controller rejects with an
\* AbortError: the outer catch, then finally.
abortSettle(k) ==
  /\ InFlight(k)
  /\ aiCalls[k].aborted
  /\ aiError' = "Request cancelled"
  /\ Finally(k, "cancelled", aiCalls)
  /\ UNCHANGED <<messages, currentResponse, renderedMessages>>
  /\ UNCHANGED <<sessionVars, chainVars, apiVars>>

clearMessages ==
  /\ messages' = <<>>
  /\ aiError' = nullStr
  /\ currentResponse' = ""
  /\ UNCHANGED <<aiIsLoading, isStreaming, abortControllerRef, aiCalls, renderedMessages>>
  /\ UNCHANGED <<sessionVars, chainVars, apiVars>>

stopStreaming ==
  /\ IF abortControllerRef # 0
       THEN /\ aiCalls' = [aiCalls EXCEPT ![abortControllerRef].aborted = TRUE]
            /\ abortControllerRef' = 0
       ELSE UNCHANGED <<aiCalls, abortControllerRef>>
  /\ UNCHANGED <<messages, aiIsLoading, isStreaming, aiError, currentResponse, renderedMessages>>
  /\ UNCHANGED <<sessionVars, chainVars, apiVars>>

\* Variant of FindLastUserIndex: findIndex, which scans forward.
FindFirstUserIndex(msgs) ==
  LET at == { i \in 1..Len(msgs) : msgs[i].role = "user" }
  IN  IF at = {} THEN -1 ELSE (CHOOSE i \in at : \A j \in at : i <= j) - 1

\* messages.findLastIndex((m) => m.role === 'user'), counted from 0; -1 when absent.
FindLastUserIndex(msgs) ==
  LET at == { i \in 1..Len(msgs) : msgs[i].role = "user" }
  IN  IF at = {} THEN -1 ELSE (CHOOSE i \in at : \A j \in at : j <= i) - 1

\* regenerateLastResponse up to the await inside sendMessage; `messages` in its
\* body is the log of the render that made the callback.
regenerateLastResponse(k) ==
  /\ FreshAiCall(k)
  /\ LET lastUserMessageIndex == FindLastUserIndex(renderedMessages)
     IN  IF Len(renderedMessages) < 2 \/ lastUserMessageIndex = -1
           THEN UNCHANGED vars
           ELSE SendSync(k, renderedMessages[lastUserMessageIndex + 1].content,
                         Slice0(messages, lastUserMessageIndex))

\* React renders the component again: the callbacks now close over the current log.
render ==
  /\ renderedMessages # messages
  /\ renderedMessages' = messages
  /\ UNCHANGED <<messages, aiIsLoading, isStreaming, aiError, currentResponse,
                 abortControllerRef, aiCalls>>
  /\ UNCHANGED <<sessionVars, chainVars, apiVars>>

AiNext ==
  \/ \E k \in AiCallIds : \E c \in Contents(k) : sendMessage(k, c)
  \/ \E k \in AiCallIds, r \in ChatResponses : fetchSettle(k, r)
  \/ \E k \in AiCallIds : readChunk(k)
  \/ \E k \in AiCallIds : readDone(k)
  \/ \E k \in AiCallIds : readFail(k)
  \/ \E k \in AiCallIds : abortSettle(k)
  \/ clearMessages
  \/ stopStreaming
  \/ \E k \in AiCallIds : regenerateLastResponse(k)
  \/ render

\* ======================================================================
\* API CLIENT (ApiClient.fetch)
\* ======================================================================
\* Each call owns an AbortController and the timer that aborts it. The
\* timer is "armed" from setTimeout until it fires or clearTimeout runs.

\* What the backend may do with a request: fail at the transport, or answer
\* with a status line and a body, which is JSON or is not.
ApiResponses ==
  { NetworkFailure }
    \cup { [net |-> TRUE, ok |-> TRUE, status |-> 200, statusText |-> "OK", body |-> b] :
             b \in { [id |-> "x"], Unparseable } }
    \cup { [net |-> TRUE, ok |-> FALSE, status |-> 500,
            statusText |-> "Internal Server Error", body |-> b] : b \in ErrorBodies }

ApiCallIds == 1..MaxApiCalls

IdleApiCall ==
  [pc |-> "idle", timer |-> "none", aborted |-> FALSE, response |-> NetworkFailure,
   result |-> null]

ApiInit == apiCalls = [k \in ApiCallIds |-> IdleApiCall]

FreshApiCall(k) ==
  /\ apiCalls[k].pc = "idle"
  /\ \A j \in ApiCallIds : j < k => apiCalls[j].pc # "idle"

\* { success: false, data: null, error: { code, message } }
ApiFailure(code, message) ==
  [success |-> FALSE, data |-> null, error |-> [code |-> code, message |-> message]]

\* return: the call resolves with `result`.
ApiReturn(k, timer, result) ==
  /\ apiCalls' = [apiCalls EXCEPT ![k].pc = "done", ![k].timer = timer, ![k].result = result]
  /\ UNCHANGED <<sessionVars, chainVars, aiVars>>

\* fetch up to the await of the transport's fetch: controller made, timer set.
apiStart(k) ==
  /\ FreshApiCall(k)
  /\ apiCalls' = [apiCalls EXCEPT ![k].pc = "fetch", ![k].timer = "armed"]
  /\ UNCHANGED <<sessionVars, chainVars, aiVars>>

\* The timer runs out: controller.abort().
apiTimeout(k) ==
  /\ apiCalls[k].timer = "armed"
  /\ apiCalls' = [apiCalls EXCEPT ![k].timer = "fired", ![k].aborted = TRUE]
  /\ UNCHANGED <<sessionVars, chainVars, aiVars>>

\* The transport's fetch settles with r before the timer has fired: on a
\* response clearTimeout, then the await of response.json(); on a
\* transport failure the catch block.
apiRespond(k, r) ==
  /\ apiCalls[k].pc = "fetch"
  /\ ~apiCalls[k].aborted
  /\ IF r.net
       THEN /\ apiCalls' = [apiCalls EXCEPT ![k].pc = "json", ![k].timer = "cleared",
                                            ![k].response = r]
            /\ UNCHANGED <<sessionVars, chainVars, aiVars>>
       ELSE ApiReturn(k, "cleared", ApiFailure("NETWORK_ERROR", "Failed to fetch"))

\* The transport's fetch rejects with an AbortError: the catch block.
apiAbortSettle(k) ==
  /\ apiCalls[k].pc = "fetch"
  /\ apiCalls[k].aborted
  /\ ApiReturn(k, "cleared", ApiFailure("TIMEOUT", "Request timed out"))

\* response.json() settles, the body having arrived: the rest of the try
\* block, or the catch block when the body is not JSON.
apiJson(k) ==
  /\ apiCalls[k].pc = "json"
  /\ LET r == apiCalls[k].response
     IN  IF r.body = Unparseable
           THEN ApiReturn(k, "cleared",
                          ApiFailure("NETWORK_ERROR", FailureMessage(r.body, r.statusText)))
         ELSE IF ~r.ok
           THEN ApiReturn(k, "cleared",
                          ApiFailure("HTTP_" \o Decimal(r.status), MessageOr(r.body, r.statusText)))
         ELSE ApiReturn(k, "cleared", [success |-> TRUE, data |-> r.body])

ApiNext ==
  \/ \E k \in ApiCallIds : apiStart(k)
  \/ \E k \in ApiCallIds : apiTimeout(k)
  \/ \E k \in ApiCallIds, r \in ApiResponses : apiRespond(k, r)
  \/ \E k \in ApiCallIds : apiAbortSettle(k)
  \/ \E k \in ApiCallIds : apiJson(k)

\* ======================================================================
\* SPECIFICATIONS
\* ======================================================================
Init == SessionInit /\ ChainInit /\ AiInit /\ ApiInit

Next == SessionNext \/ WalletNext \/ TxNext \/ AiNext \/ ApiNext

Spec == Init /\ [][Next]_vars

\* Each store owns its slice of state and no action of one store reads or
\* writes another's, so a statement about one store is checked under the
\* specification of that store's actions.
SpecSession == Init /\ [][SessionNext]_vars

SpecWallet == Init /\ [][WalletNext]_vars

SpecTx == Init /\ [][TxNext]_vars

SpecAI == Init /\ [][AiNext]_vars

\* The wallet actions on a store that already holds transactions: the lists
\* earlier addTransaction calls have left, with what they wrote to storage.
PriorTransactions ==
  LET sent == [hash |-> "0x1", status |-> "pending", description |-> "a"]
      mined == [hash |-> "0x2", status |-> "confirmed", description |-> "a"]
  IN  { [transactions |-> <<>>, pendingTransactions |-> <<>>],
        [transactions |-> <<sent>>, pendingTransactions |-> <<sent>>],
        [transactions |-> <<mined, sent>>, pendingTransactions |-> <<sent>>] }

ChainInitAfter(prior) ==
  /\ wallet = initialWalletState
  /\ currentChain = null
  /\ transactions = prior.transactions
  /\ pendingTransactions = prior.pendingTransactions
  /\ isWalletModalOpen = FALSE
  /\ isChainSwitching = FALSE
  /\ chainCalls = [k \in ChainCallIds |-> IdleChainCall]
  /\ chainStorage = IF prior.transactions = <<>>
                      THEN null ELSE ChainPartialize(prior.transactions)

InitWalletAfter ==
  /\ SessionInit
  /\ AiInit
  /\ ApiInit
  /\ \E prior \in PriorTransactions : ChainInitAfter(prior)

SpecWalletAfter == InitWalletAfter /\ [][WalletNext]_vars

\* What the two stores write to storage, over a long list of transactions:
\* the synchronous actions of the session store with its reload, and the
\* additions of a long session.
PersistNext ==
  \/ \E u \in SetUserArgs : setUser(u)
  \/ \E l \in BOOLEAN : setLoading(l)
  \/ \E e \in ErrorArgs : setError(e)
  \/ logout
  \/ sessionReload
  \/ addNextTransaction
  \/ clearTransactions

SpecPersist == Init /\ [][PersistNext]_vars

\* The chat hook on a log earlier turns have left, every call of those turns
\* having returned: two answered turns; a second turn that failed and left
\* its user message unanswered; two answers whose user messages a
\* clearMessages removed while their requests were in flight.
PriorLogs ==
  { << UserMessage(-2, "x"), AssistantMessage(-2, "Hi"),
       UserMessage(-1, "y"), AssistantMessage(-1, "Hello") >>,
    << UserMessage(-2, "x"), AssistantMessage(-2, "Hi"), UserMessage(-1, "y") >>,
    << AssistantMessage(-2, "Hi"), AssistantMessage(-1, "Hello") >> }

AiInitAfter(log) ==
  /\ messages = log
  /\ aiIsLoading = FALSE
  /\ isStreaming = FALSE
  /\ aiError = nullStr
  /\ currentResponse = ""
  /\ abortControllerRef = 0
  /\ aiCalls = [k \in AiCallIds |-> IdleAiCall]
  /\ renderedMessages = log

InitAIAfter ==
  /\ SessionInit
  /\ ChainInit
  /\ ApiInit
  /\ \E log \in PriorLogs : AiInitAfter(log)

SpecAIAfter == InitAIAfter /\ [][AiNext]_vars

\* The session store right after logout() has run while call 1, a login, a
\* signup or a refreshSession, was waiting for the backend: what the start
\* of that call and the logout have left.
SessionInitAfterLogout(kind) ==
  /\ user = null
  /\ isAuthenticated = FALSE
  /\ isLoading = (kind # "refresh")
  /\ error = nullStr
  /\ authCalls = [k \in AuthCallIds |->
                    IF k = 1 THEN [kind |-> kind, pc |-> "pending"] ELSE IdleCall]
  /\ userStorage = UserPartialize(null, FALSE, kind # "refresh", nullStr)

InitAfterLogout ==
  /\ \E kind \in {"login", "signup", "refresh"} : SessionInitAfterLogout(kind)
  /\ ChainInit
  /\ AiInit
  /\ ApiInit

SpecAfterLogout == InitAfterLogout /\ [][SessionNext]_vars

\* The requests that wait for the backend: the calls of ApiClient.fetch and
\* the login and signup of the session store. The backend is free to answer,
\* to fail or to stay silent, so no step that waits for it is fair; a timer
\* that is set fires, and the promise of an aborted fetch rejects.
RequestNext ==
  \/ \E k \in AuthCallIds : loginStart(k)
  \/ \E k \in AuthCallIds : signupStart(k)
  \/ \E k \in AuthCallIds, r \in AuthResponses : loginSettle(k, r)
  \/ \E k \in AuthCallIds, r \in AuthResponses : signupSettle(k, r)
  \/ ApiNext

RequestFairness ==
  \A k \in ApiCallIds : WF_vars(apiTimeout(k)) /\ WF_vars(apiAbortSettle(k))

SpecRequest == Init /\ [][RequestNext]_vars /\ RequestFairness

\* ======================================================================
\* PROPERTIES
\* ======================================================================

\* ---------------------------------------------------------------- C1
\* C1: in every reachable state of the session store, isAuthenticated is
\* true exactly when user is not null.
C1_AuthenticatedIffUser == isAuthenticated = (user # null)

\* A login has resolved and left a user while another call was rejected.
C1_Witness ==
  /\ user # null
  /\ isAuthenticated
  /\ \E k, j \in AuthCallIds :
       /\ authCalls[k].kind = "login" /\ authCalls[k].pc = "resolved"
       /\ authCalls[j].pc = "rejected"

\* ---------------------------------------------------------------- C2
\* C2: in every reachable state of the chain store, a wallet whose status
\* is not 'connected' has a null address.
C2_AddressOnlyWhenConnected ==
  wallet.status # "connected" => wallet.address = nullStr

\* ---------------------------------------------------------------- C3
\* C3: after every addTransaction or updateTransaction call,
\* pendingTransactions is the sub-list of transactions whose status is
\* 'pending', same entries, same order.
C3_PendingIsFilterOfTransactions ==
  [][ ( \/ \E tx \in TxArgs : addTransaction(tx)
        \/ \E h \in Hashes, u \in TxUpdates : updateTransaction(h, u) )
      => pendingTransactions' = SelectSeq(transactions', IsPending) ]_vars

\* ---------------------------------------------------------------- C4
\* C4: when a second sendMessage call b is made while an earlier call a is
\* still in flight and both calls have run to their end, the log holds no
\* assistant message of a's turn and exactly one of b's turn.
AssistantEntries(k) ==
  { i \in 1..Len(messages) : messages[i].role = "assistant" /\ messages[i].id = k }

UserEntries(k) ==
  { i \in 1..Len(messages) : messages[i].role = "user" /\ messages[i].id = k }

C4_SupersededTurnAppendsNothing ==
  \A a, b \in AiCallIds :
    ( /\ a \in aiCalls[b].live
      /\ aiCalls[a].pc = "done" /\ aiCalls[a].outcome \in {"appended", "cancelled"}
      /\ aiCalls[b].pc = "done" /\ aiCalls[b].outcome = "appended"
      /\ UserEntries(a) # {} /\ UserEntries(b) # {} )
    => ( AssistantEntries(a) = {} /\ Cardinality(AssistantEntries(b)) = 1 )

\* ---------------------------------------------------------------- C5
\* C5: at most one chat request is live (in flight with a controller that
\* has not been aborted) at any time.
LiveRequests == { k \in AiCallIds : InFlight(k) /\ ~aiCalls[k].aborted }

C5_AtMostOneLiveRequest == Cardinality(LiveRequests) <= 1

\* ---------------------------------------------------------------- C6
\* C6: every change of wallet.status follows an edge of the connection
\* state machine: disconnected->connecting, error->connecting,
\* connecting->connected, connecting->error, or any->disconnected.
StatusEdges ==
  { <<"disconnected", "connecting">>, <<"error", "connecting">>,
    <<"connecting", "connected">>, <<"connecting", "error">> }
    \cup { <<s, "disconnected">> : s \in {"connecting", "connected", "error"} }

C6_StatusFollowsStateMachine ==
  [][ wallet'.status # wallet.status
        => <<wallet.status, wallet'.status>> \in StatusEdges ]_vars

\* ---------------------------------------------------------------- C7
\* C7: in runs where connectWallet is only invoked while status is
\* 'disconnected' or 'error', no reachable state has status 'connecting'
\* with a non-null address.
ConnectsOnlyFromRest ==
  \A k \in ChainCallIds :
    chainCalls[k].kind = "connect" => chainCalls[k].from \in {"disconnected", "error"}

C8_Fallback(kind) == IF kind = "login" THEN "Login failed" ELSE "Signup failed"

C8_Message(kind, body) ==
  IF body = [message |-> "Invalid credentials"] THEN "Invalid credentials" ELSE C8_Fallback(kind)

C8_HttpFailure(r) == r.net /\ ~r.ok

C8_Settle(k, r) == loginSettle(k, r) \/ signupSettle(k, r)

C8_Start(k) == loginStart(k) \/ signupStart(k)

C9_Success(r) == r.net /\ r.ok /\ BodyUser(r.body) # null

C9_Settle(k, r) == loginSettle(k, r) \/ signupSettle(k, r)

C9_Expected(u) ==
  IF "preferences" \in DOMAIN u THEN u ELSE Spread(u, [preferences |-> defaultPreferences])

C9_SuccessKeepsBackendPreferences ==
  [][ \A k \in AuthCallIds, r \in AuthResponses :
        (C9_Success(r) /\ C9_Settle(k, r)) =>
          /\ authCalls'[k].pc = "resolved"
          /\ user' = C9_Expected(BodyUser(r.body))
          /\ isAuthenticated' = TRUE
          /\ isLoading' = FALSE ]_vars

\* ---------------------------------------------------------------- C10
\* C10: a chat stream made of structured content chunks and the sentinel,
\* each read carrying whole lines, that ends cleanly appends exactly one
\* assistant message, whose content is the concatenation of the chunks'
\* content fields in arrival order; every value the call gave currentResponse
\* is a prefix of that content; currentResponse is empty afterwards; and no
\* assistant message of the turn is in the log while the call is in flight.
IsPrefix(p, s) == Len(p) <= Len(s) /\ SubSeq(s, 1, Len(p)) = p

RECURSIVE Concatenation(_)
Concatenation(parts) ==
  IF parts = <<>> THEN "" ELSE Head(parts) \o Concatenation(Tail(parts))

\* The content fields of the bodies made of content chunks and the sentinel only.
ContentFields == [hello |-> <<"He", "llo">>]

C10_CleanEndStep(k) ==
  /\ aiCalls[k].pc = "read"
  /\ aiCalls[k].stream \in DOMAIN ContentFields
  /\ ~aiCalls[k].split
  /\ aiCalls'[k].pc = "done"
  /\ aiCalls'[k].outcome = "appended"

C11_Settled == TransactionStatus \ {"pending"}

C11_HashesOf(txs) == { txs[i].hash : i \in 1..Len(txs) }

C11_SettlingUpdateLeavesPending ==
  [][ \A h \in Hashes, s \in C11_Settled :
        (h \in C11_HashesOf(transactions) /\ updateTransaction(h, [status |-> s])) =>
          /\ h \notin C11_HashesOf(pendingTransactions')
          /\ Len(transactions') = Len(transactions)
          /\ \A i \in 1..Len(transactions) :
               transactions'[i] = IF transactions[i].hash = h
                                    THEN [transactions[i] EXCEPT !.status = s]
                                    ELSE transactions[i] ]_vars

\* 0x2 was added pending after 0x1 and is still pending; 0x1, whose
\* description an update has changed, is confirmed and no longer in the
\* pending list.
C11_Witness ==
  /\ transactions = << [hash |-> "0x2", status |-> "pending", description |-> "a"],
                       [hash |-> "0x1", status |-> "confirmed", description |-> "b"] >>
  /\ pendingTransactions = << [hash |-> "0x2", status |-> "pending", description |-> "a"] >>

\* ---------------------------------------------------------------- C12
\* C12: disconnectWallet, from any reachable state, sets wallet to the
\* initial tuple and currentChain to null and leaves transactions,
\* pendingTransactions, isWalletModalOpen and isChainSwitching unchanged;
\* called again in the state it has left, it changes nothing at all.
C12_InitialTuple ==
  [status |-> "disconnected", address |-> nullStr, chainId |-> nullStr,
   balance |-> 0, ensName |-> nullStr, ensAvatar |-> nullStr]

\* What every disconnectWallet call leaves: the reset wallet, and storage written.
C12_Left ==
  /\ wallet = C12_InitialTuple
  /\ currentChain = null
  /\ chainStorage # null

C12_DisconnectResetsOnce ==
  [][ disconnectWallet =>
        /\ C12_Left'
        /\ UNCHANGED <<transactions, pendingTransactions, isWalletModalOpen, isChainSwitching>>
        /\ C12_Left => UNCHANGED vars ]_vars

\* The wallet was connected on a store holding two transactions, a switch
\* is under way, and a disconnectWallet has reset the wallet.
C12_Witness ==
  /\ C12_Left
  /\ Len(transactions) = 2
  /\ Len(pendingTransactions) = 1
  /\ isChainSwitching
  /\ \E k \in ChainCallIds : chainCalls[k].kind = "connect" /\ chainCalls[k].pc = "resolved"

\* ---------------------------------------------------------------- C13
\* C13: a switchChain that fails leaves wallet.chainId and currentChain as
\* they are, clears isChainSwitching and re-throws; starting the call
\* leaves wallet and currentChain alone too. A switchChain that succeeds
\* sets wallet.chainId and currentChain to the requested chain and clears
\* isChainSwitching in one state update, the rest of the wallet unchanged.
C13_SwitchKeepsChainOnFailure ==
  [][ \A k \in ChainCallIds :
        /\ switchFail(k) =>
             /\ wallet' = wallet
             /\ currentChain' = currentChain
             /\ isChainSwitching' = FALSE
             /\ chainCalls'[k].pc = "rejected"
        /\ (\E c \in SwitchArgs : switchStart(k, c)) =>
             /\ wallet' = wallet
             /\ currentChain' = currentChain
        /\ switchSuccess(k) =>
             /\ wallet' = [wallet EXCEPT !.chainId = chainCalls[k].arg]
             /\ currentChain' # null
             /\ currentChain'.id = chainCalls[k].arg
             /\ isChainSwitching' = FALSE
             /\ chainCalls'[k].pc = "resolved" ]_vars

\* A switch to Polygon has succeeded on a connected wallet and a later
\* switch has been rejected: the wallet is still on Polygon.
C13_Witness ==
  /\ wallet.status = "connected"
  /\ wallet.chainId = "137"
  /\ currentChain # null
  /\ currentChain.name = "Polygon"
  /\ ~isChainSwitching
  /\ \E k \in ChainCallIds : chainCalls[k].kind = "switch" /\ chainCalls[k].pc = "rejected"

\* ---------------------------------------------------------------- C14
\* C14: a chat request cancelled while in flight, by stopStreaming or by a
\* later sendMessage, ends with error 'Request cancelled', with the log as
\* it was and without throwing; no assistant message of its turn is ever
\* in the log.
C14_Superseded(a) == \E b \in AiCallIds : a \in aiCalls[b].live

C14_CancelledTurnAppendsNothing ==
  /\ [][ \A k \in AiCallIds :
           abortSettle(k) =>
             /\ messages' = messages
             /\ aiError' = "Request cancelled"
             /\ aiCalls'[k].pc = "done"
             /\ aiCalls'[k].outcome = "cancelled" ]_vars
  /\ [](\A a \in AiCallIds :
          C14_Superseded(a) =>
            /\ AssistantEntries(a) = {}
            /\ aiCalls[a].pc = "done" => aiCalls[a].outcome = "cancelled")

\* ---------------------------------------------------------------- C15
\* C15: regenerateLastResponse, called by a render that shows the current
\* log: with at least two messages and a user message among them, it cuts
\* the log just before the most recent user message, appends one user
\* message with the same content and issues the request; otherwise it
\* changes no state and issues no request. The clean end of a stream
\* appends one assistant message of the turn after what the log holds.
C15_UserPositions == { i \in 1..Len(messages) : messages[i].role = "user" }

C15_MostRecentUser == CHOOSE i \in C15_UserPositions : \A j \in C15_UserPositions : j <= i

C16_Trimmed == [c \in {"a", " b ", "c"} |-> IF c = " b " THEN "b" ELSE c]

C16_UserMessageBeforeRequest ==
  [][ \A k \in AiCallIds :
        /\ \A c \in Contents(k) :
             sendMessage(k, c) =>
               IF c \notin DOMAIN C16_Trimmed
                 THEN UNCHANGED vars
                 ELSE /\ messages' = Append(messages, [id |-> k, role |-> "user",
                                                       content |-> C16_Trimmed[c]])
                      /\ aiCalls'[k].pc = "fetch"
        /\ (aiCalls[k].pc = "idle" /\ aiCalls'[k].pc = "fetch") =>
             /\ messages' # <<>>
             /\ messages'[Len(messages')].role = "user"
             /\ messages'[Len(messages')].id = k ]_vars

\* The request of the second call is pending and the log ends with its
\* user message, " b " without its blanks.
C16_Witness ==
  /\ aiCalls[2].pc = "fetch"
  /\ Len(messages) = 2
  /\ messages[2] = [id |-> 2, role |-> "user", content |-> "b"]

\* ---------------------------------------------------------------- C17
\* C17: refreshSession ends with user null, isAuthenticated false and error
\* null when the request fails in transport, is answered with a
\* non-success status or carries no user; on an answer carrying a user it
\* sets user to that record, with the default preferences if it has none,
\* and isAuthenticated to true; it always resolves, and changes nothing
\* before the answer.
C17_CarriesUser(r) == r.net /\ r.ok /\ "user" \in DOMAIN r.body /\ r.body.user # null

C17_Defaulted(u) ==
  IF "preferences" \in DOMAIN u
    THEN u
    ELSE [k \in DOMAIN u \cup {"preferences"} |->
            IF k = "preferences"
              THEN [theme |-> "system", notifications |-> TRUE,
                    language |-> "en", newsletter |-> FALSE]
              ELSE u[k]]

C17_RefreshLogsOutOnFailure ==
  [][ \A k \in AuthCallIds :
        /\ \A r \in AuthResponses :
             refreshSettle(k, r) =>
               /\ authCalls'[k].pc = "resolved"
               /\ IF C17_CarriesUser(r)
                    THEN /\ user' = C17_Defaulted(r.body.user)
                         /\ isAuthenticated' = TRUE
                    ELSE /\ user' = null
                         /\ isAuthenticated' = FALSE
                         /\ error' = nullStr
        /\ refreshStart(k) => UNCHANGED <<user, isAuthenticated, isLoading, error>> ]_vars

\* A login had resolved; a refreshSession called after it has resolved too
\* and the store is logged out.
C17_Witness ==
  /\ user = null
  /\ ~isAuthenticated
  /\ error = nullStr
  /\ \E k, j \in AuthCallIds :
       /\ authCalls[k].kind = "refresh" /\ authCalls[k].pc = "resolved"
       /\ authCalls[j].kind = "login" /\ authCalls[j].pc = "resolved" /\ j < k

\* ---------------------------------------------------------------- C18
\* C18: with two login calls in flight at once, each response that carries
\* a user replaces the user in the store when it arrives, whichever call
\* was issued first, so that the user left is that of the response that
\* arrives last; the arrival of one response leaves the other call as it is.
C18_OtherLogins(k) ==
  { j \in AuthCallIds \ {k} :
      authCalls[j].kind = "login" /\ authCalls[j].pc \in {"pending", "resolved"} }

C18_LastResponseWins ==
  [][ \A k \in AuthCallIds, r \in AuthResponses :
        (C18_OtherLogins(k) # {} /\ C17_CarriesUser(r) /\ loginSettle(k, r)) =>
          /\ user' = C17_Defaulted(r.body.user)
          /\ isAuthenticated' = TRUE
          /\ authCalls'[k].pc = "resolved"
          /\ \A j \in AuthCallIds \ {k} : authCalls'[j] = authCalls[j] ]_vars

\* Two logins were in flight at once; the one issued second has been
\* answered first and its user is in the store; the first is still pending.
C18_Witness ==
  /\ authCalls[1].kind = "login" /\ authCalls[1].pc = "pending"
  /\ authCalls[2].kind = "login" /\ authCalls[2].pc = "resolved"
  /\ user # null
  /\ user.preferences = ServerPreferences

\* ---------------------------------------------------------------- C19
\* C19: what the session store has written to storage is exactly user and
\* isAuthenticated, as they are in the store; what the chain store has
\* written is exactly transactions, cut to its first 50 entries, the list
\* being newest first; addTransaction puts the new entry in front of the
\* in-memory list and drops none, whatever the length.
C19_Newest(txs) == SubSeq(txs, 1, IF Len(txs) < 50 THEN Len(txs) ELSE 50)

C19_StorageHoldsAllowListedFields ==
  /\ [](userStorage # null =>
          userStorage = [user |-> user, isAuthenticated |-> isAuthenticated])
  /\ [](chainStorage # null =>
          /\ DOMAIN chainStorage = {"transactions"}
          /\ chainStorage.transactions = C19_Newest(transactions))
  /\ [][ addNextTransaction =>
           /\ Len(transactions') = Len(transactions) + 1
           /\ transactions'[1].hash = "0x" \o Decimal(Len(transactions'))
           /\ SubSeq(transactions', 2, Len(transactions')) = transactions ]_vars

\* 52 transactions are in memory, the 52nd in front; storage holds the 50
\* newest of them, down to the third; the session store shows an error and
\* a loading flag that its storage entry does not have.
C19_Witness ==
  /\ Len(transactions) = 52
  /\ transactions[1].hash = "0x52"
  /\ transactions[52].hash = "0x1"
  /\ Len(chainStorage.transactions) = 50
  /\ chainStorage.transactions[1].hash = "0x52"
  /\ chainStorage.transactions[50].hash = "0x3"
  /\ isLoading
  /\ error = "oops"
  /\ userStorage # null
  /\ DOMAIN userStorage = {"user", "isAuthenticated"}
  /\ userStorage.user # null

\* ---------------------------------------------------------------- C20
\* C20: in every reachable state of the session store in which user is not
\* null, user has preferences, and they are a full record: theme,
\* notifications, language and newsletter.
C20_PreferencesAlwaysPresent ==
  user # null =>
    /\ "preferences" \in DOMAIN user
    /\ DOMAIN user.preferences = {"theme", "notifications", "language", "newsletter"}

\* A login answered with a user record free of preferences has resolved
\* and updatePreferences has changed the theme of the defaults it was given.
C20_Witness ==
  /\ user # null
  /\ "id" \in DOMAIN user
  /\ user.id = "u1"
  /\ user.preferences = [theme |-> "light", notifications |-> TRUE,
                          language |-> "en", newsletter |-> FALSE]
  /\ authCalls[1].kind = "login" /\ authCalls[1].pc = "resolved"
  /\ authCalls[2].pc = "idle"

\* ---------------------------------------------------------------- C21
\* C21: in every reachable state of the chain store in which wallet.status
\* is not 'connected', wallet.chainId is null and currentChain is null.
C21_ChainOnlyWhenConnected ==
  wallet.status # "connected" =>
    (wallet.chainId = nullStr /\ currentChain = null)

\* ---------------------------------------------------------------- C22
\* C22: when a chunk of the chat stream carries an error field, the stream
\* is abandoned: the call ends with the error text as the hook's error, no
\* assistant message is appended, and the accumulated response holds
\* neither the error text nor the raw chunk (it is what the content chunks
\* before it made it).
C22_ErrorText == "boom"
C22_ContentBefore == "He"

C22_ReadsErrorChunk(k) == readChunk(k) /\ aiCalls[k].stream = "error"

C22_ErrorChunkAbandonsStream ==
  [][ \A k \in AiCallIds :
        C22_ReadsErrorChunk(k) =>
          /\ aiCalls'[k].pc = "done"
          /\ aiError' = C22_ErrorText
          /\ messages' = messages
          /\ currentResponse' \in {"", C22_ContentBefore} ]_vars

\* ---------------------------------------------------------------- C23
\* C23: only lines that start with the event marker contribute to the
\* response, and the sentinel ends consumption: the content of the assistant
\* message of a stream delivered in whole lines is what the marked lines
\* before the sentinel contribute.
RECURSIVE C23_UpToSentinel(_)
C23_UpToSentinel(lines) ==
  IF lines = <<>> \/ Head(lines) = EventMarker \o Sentinel THEN <<>>
  ELSE <<Head(lines)>> \o C23_UpToSentinel(Tail(lines))

C23_Marked(lines) == SelectSeq(lines, LAMBDA line : StartsWith(line, EventMarker))

C23_Expected(text) ==
  ProcessLines([full |-> "", shown |-> <<>>],
               C23_Marked(C23_UpToSentinel(Split(text, "\n")))).full

C23_SentinelEndsConsumption ==
  [][ \A k \in AiCallIds :
        (readDone(k) /\ ~aiCalls[k].split) =>
          messages'[Len(messages')].content = C23_Expected(Streams[aiCalls[k].stream].text) ]_vars

\* ---------------------------------------------------------------- C24
\* C24: whenever no chat stream is active (isStreaming is false),
\* currentResponse is the empty string.
C24_AccumulatorEmptyWhenIdle ==
  ~isStreaming => currentResponse = ""

\* ---------------------------------------------------------------- C25
\* C25: every request is bounded by the timeout. An ApiClient.fetch call
\* whose request the backend never answers resolves, with the error code
\* TIMEOUT exactly when its timer fired and NETWORK_ERROR for a transport
\* failure, and with its timer cleared when it returns; and a login or
\* signup that is waiting for the backend settles, isLoading being false
\* afterwards.
C25_TimerClearedOnReturn ==
  \A k \in ApiCallIds : apiCalls[k].pc = "done" => apiCalls[k].timer = "cleared"

C25_TimeoutIsDistinct ==
  \A k \in ApiCallIds :
    apiCalls[k].pc = "done" =>
      /\ apiCalls[k].aborted <=>
           (~apiCalls[k].result.success /\ apiCalls[k].result.error.code = "TIMEOUT")
      /\ (apiCalls[k].response = NetworkFailure /\ ~apiCalls[k].aborted) =>
           (~apiCalls[k].result.success /\ apiCalls[k].result.error.code = "NETWORK_ERROR")

C25_FetchIsBounded ==
  \A k \in ApiCallIds : (apiCalls[k].pc = "fetch") ~> (apiCalls[k].pc # "fetch")

C25_Waiting(k) ==
  authCalls[k].pc = "pending" /\ authCalls[k].kind \in {"login", "signup"}

C25_LoginIsBounded ==
  \A k \in AuthCallIds : C25_Waiting(k) ~> ~C25_Waiting(k)

C25_RequestsAreBounded ==
  /\ [](C25_TimerClearedOnReturn /\ C25_TimeoutIsDistinct)
  /\ C25_FetchIsBounded
  /\ C25_LoginIsBounded

\* ---------------------------------------------------------------- C26
\* C26: the response of a login, signup or refreshSession that was in
\* flight when logout() ran (call 1) does not re-authenticate the store:
\* when it arrives in a logged-out store, user stays null and
\* isAuthenticated stays false.
C26_StaleSettle ==
  \E r \in AuthResponses : loginSettle(1, r) \/ signupSettle(1, r) \/ refreshSettle(1, r)

C26_LogoutOutlivesRequestsInFlight ==
  [][ (C26_StaleSettle /\ user = null) => (user' = null /\ ~isAuthenticated') ]_vars

\* ---------------------------------------------------------------- C27
\* C27: while a chat request is in flight and has not been aborted, the
\* controller reference designates the most recently started of these
\* requests, so that stopStreaming() aborts it; and the finally step of a
\* call leaves the reference alone when it designates a later call that is
\* still running.
C27_Latest(live) == CHOOSE k \in live : \A j \in live : j <= k

C27_ReferenceDesignatesLatest ==
  LiveRequests # {} => abortControllerRef = C27_Latest(LiveRequests)

C27_Returns(k) == InFlight(k) /\ aiCalls'[k].pc = "done"

C27_FinallyKeepsLaterController ==
  [][ \A k \in AiCallIds :
        ( /\ C27_Returns(k)
          /\ abortControllerRef \in AiCallIds \ {k}
          /\ InFlight(abortControllerRef) )
        => abortControllerRef' = abortControllerRef ]_vars

C27_StopStreamingReachesRequest ==
  []C27_ReferenceDesignatesLatest /\ C27_FinallyKeepsLaterController

\* ---------------------------------------------------------------- C28
\* C28: in every reachable state each assistant message in the log is
\* preceded by the user message of its turn (a stream in flight when
\* clearMessages ran appends nothing to the cleared log).
C28_AssistantFollowsItsUserMessage ==
  \A i \in 1..Len(messages) :
    messages[i].role = "assistant" =>
      \E j \in 1..(i - 1) :
        messages[j].role = "user" /\ messages[j].id = messages[i].id

\* ---------------------------------------------------------------- C29
\* C29: the message history a sendMessage call sends in its request body is
\* the log as it stands right after the call has appended its user message.
C29_Sends(k) == aiCalls[k].pc = "idle" /\ aiCalls'[k].pc = "fetch"

C29_BodyIsLogAfterAppend ==
  [][ \A k \in AiCallIds :
        C29_Sends(k) => aiCalls'[k].body = RequestMessages(messages') ]_vars

\* ---------------------------------------------------------------- C30
\* C30: the content of the assistant message made from a chat stream is
\* the content the same bytes yield when they arrive in one read, however
\* the reads have split them.
C30_InOneRead(text) == ProcessChunk([full |-> "", shown |-> <<>>], text).full

C30_ContentIndependentOfReads ==
  [][ \A k \in AiCallIds :
        readDone(k) =>
          messages'[Len(messages')].content = C30_InOneRead(Streams[aiCalls[k].stream].text) ]_vars

====
